---------------------------- MODULE Spec2Model ----------------------------
(***************************************************************************)
(* Model of the icon catalog pipeline of src/src/extension.ts:             *)
(* loadIcons (source precedence and memoisation), fetchMaterialIcons       *)
(* (parsing of the remote name list), getSvgContent (lazy payloads) and    *)
(* the saveCustomIcon command (upsert and persistence).                    *)
(*                                                                         *)
(* Strings are sequences of one-character strings, so that split, trim,    *)
(* includes and concatenation are computed and not assumed.  A JS object   *)
(* is a function whose domain is the set of its properties that hold a     *)
(* defined value: the program never distinguishes an absent property from  *)
(* one that holds undefined, except through `in`, which it applies only    *)
(* to _svgPath, a property that is never set to undefined.                 *)
(***************************************************************************)
EXTENDS Integers, Sequences, FiniteSets, TLC

VARIABLES
  customPath,         \* the materialIcons.customIconsPath setting ("" when unset)
  customFile,         \* the file at customPath
  workspacePath,      \* whether a workspace folder is open
  wsFile,             \* <workspace>/material-icons.json
  extensionPath,      \* whether the extension's own path is known
  cacheFile,          \* <extension>/resources/material-icons-cache.json
  materialIconsCache, \* the module's memory cache: Null or an array
  heap,               \* the arrays in memory, by reference
  inFlight,           \* the loadIcons() calls that await the name list
  returned,           \* what the loadIcons() call that returned last gave
  memo,               \* history: the first collection resolved from a source
                      \* since the last deactivate(), Null when none
  svgFiles,           \* <extension>/resources/icons: file name -> file
  svgCalls,           \* the getSvgContent() calls that await the network:
                      \* the position of the record of each, 0 when idle
  svgReturned,        \* what the getSvgContent() call that returned last gave
  activated,          \* whether activate() has run in this session
  materialIcons,      \* the collection of activate(): Null or an array
  message,            \* the message shown to the user last
  saved,              \* history: the collection the last successful
                      \* registration wrote to the workspace file
  fetched,            \* history: the collection of the last load that
                      \* resolved through a successful answer of the remote
                      \* host, the cache file being as that load left it
  fetchIn,            \* fetchMaterialIcons: the response the network gives
  fetchOut,           \* fetchMaterialIcons: the array it returned
  fetchPc,            \* fetchMaterialIcons: "start" | "done"
  warnings,           \* the "No material icons found" warnings of the session
  answer,             \* what a surface (completion, picker) answered last
  pickWaiting,        \* whether a picker command awaits iconsPromise
  picker              \* the page of the picker's webview

envVars == <<customPath, customFile, workspacePath, wsFile, extensionPath,
             cacheFile>>
loadVars == <<materialIconsCache, heap, inFlight, returned, memo>>
svgVars == <<svgFiles, svgCalls, svgReturned>>
regVars == <<activated, materialIcons, message, saved, fetched>>
fetchVars == <<fetchIn, fetchOut, fetchPc>>
surfVars == <<answer, pickWaiting>>
uiVars == <<warnings, surfVars, picker>>

vars == <<envVars, loadVars, svgVars, regVars, fetchVars, uiVars>>

(***************************************************************************)
(* Bounds of the model.                                                    *)
(***************************************************************************)
MaxTextLen == 5
MaxLoads == 2
MaxSvgCalls == 2
MaxIcons == 3
MaxPickerIcons == 201
MaxTimers == 2

(***************************************************************************)
(* Strings.                                                                *)
(***************************************************************************)
Whitespace == {" ", "\n", "\t", "\r"}

\* String.prototype.includes
Includes(s, sub) ==
  \E i \in 0..(Len(s) - Len(sub)) : SubSeq(s, i + 1, i + Len(sub)) = sub

\* String.prototype.trim
Trim(s) ==
  LET keep == {i \in 1..Len(s) : s[i] \notin Whitespace}
  IN  IF keep = {} THEN <<>>
      ELSE SubSeq(s, CHOOSE i \in keep : \A j \in keep : i <= j,
                     CHOOSE i \in keep : \A j \in keep : i >= j)

\* String.prototype.split with a one-character separator: the segments
\* between the separators, empty ones included; "" splits into [""].
RECURSIVE SplitFrom(_, _, _, _)
SplitFrom(s, sep, i, cur) ==
  IF i > Len(s) THEN <<cur>>
  ELSE IF s[i] = sep THEN <<cur>> \o SplitFrom(s, sep, i + 1, <<>>)
  ELSE SplitFrom(s, sep, i + 1, Append(cur, s[i]))

Split(s, sep) == SplitFrom(s, sep, 1, <<>>)

(***************************************************************************)
(* Program constants.                                                      *)
(***************************************************************************)
MATERIAL_CATEGORIES ==
  << <<"a", "c", "t", "i", "o", "n">>,
     <<"a", "l", "e", "r", "t">>,
     <<"a", "v">>,
     <<"c", "o", "m", "m", "u", "n", "i", "c", "a", "t", "i", "o", "n">>,
     <<"c", "o", "n", "t", "e", "n", "t">>,
     <<"d", "e", "v", "i", "c", "e">>,
     <<"e", "d", "i", "t", "o", "r">>,
     <<"f", "i", "l", "e">>,
     <<"h", "a", "r", "d", "w", "a", "r", "e">>,
     <<"h", "o", "m", "e">>,
     <<"i", "m", "a", "g", "e">>,
     <<"m", "a", "p", "s">>,
     <<"n", "a", "v", "i", "g", "a", "t", "i", "o", "n">>,
     <<"n", "o", "t", "i", "f", "i", "c", "a", "t", "i", "o", "n">>,
     <<"p", "l", "a", "c", "e", "s">>,
     <<"s", "e", "a", "r", "c", "h">>,
     <<"s", "o", "c", "i", "a", "l">>,
     <<"t", "o", "g", "g", "l", "e">> >>

Filled == <<"f", "i", "l", "l", "e", "d">>
Outlined == <<"o", "u", "t", "l", "i", "n", "e", "d">>
ICON_VARIANTS ==
  << Filled, Outlined, <<"r", "o", "u", "n", "d", "e", "d">>,
     <<"s", "h", "a", "r", "p">>, <<"t", "w", "o", "-", "t", "o", "n", "e">> >>

Other == <<"o", "t", "h", "e", "r">>
IconSuffix == <<"_", "i", "c", "o", "n">>
MaterialIconPrefix ==
  <<"M", "a", "t", "e", "r", "i", "a", "l", " ", "I", "c", "o", "n", ":", " ">>

(***************************************************************************)
(* JS objects.                                                             *)
(***************************************************************************)
Has(o, k) == k \in DOMAIN o
Put(o, k, v) == [f \in (DOMAIN o) \cup {k} |-> IF f = k THEN v ELSE o[f]]
Del(o, k) == [f \in (DOMAIN o) \ {k} |-> o[f]]

(***************************************************************************)
(* fetchMaterialIcons.  A response is the outcome of the one request:      *)
(* the request throws, answers with a non-success status, or answers with  *)
(* a text.                                                                 *)
(***************************************************************************)
Throws == [kind |-> "throw", text |-> <<>>]
NotOk == [kind |-> "notok", text |-> <<>>]
Ok(text) == [kind |-> "ok", text |-> text]

\* MATERIAL_CATEGORIES.find((cat) => name.includes(cat)) || "other"
CategoryOf(name) ==
  LET hits == {i \in 1..Len(MATERIAL_CATEGORIES) :
                 Includes(name, MATERIAL_CATEGORIES[i])}
  IN  IF hits = {} THEN Other
      ELSE MATERIAL_CATEGORIES[CHOOSE i \in hits : \A j \in hits : i <= j]

\* The record pushed for one name.
FetchedIcon(name) ==
  [name |-> name,
   category |-> CategoryOf(name),
   tags |-> <<name, CategoryOf(name)>>,
   variant |-> Filled,
   description |-> MaterialIconPrefix \o name]

\* text.split("\n").filter((line) => line.trim())
NonBlank(line) == Trim(line) # <<>>
TextLines(text) == SelectSeq(Split(text, "\n"), NonBlank)

\* The loop over the lines, with the Set of the names already added.
RECURSIVE ParseLinesNoDedup(_, _, _)
ParseLinesNoDedup(lines, icons, iconNames) ==
  IF lines = <<>> THEN icons
  ELSE LET name == Head(Split(Head(lines), " "))
       IN  ParseLinesNoDedup(Tail(lines), Append(icons, FetchedIcon(name)),
                             iconNames \cup {name})

RECURSIVE ParseLines(_, _, _)
ParseLines(lines, icons, iconNames) ==
  IF lines = <<>> THEN icons
  ELSE LET name == Head(Split(Head(lines), " "))
       IN  IF name \in iconNames
           THEN ParseLines(Tail(lines), icons, iconNames)
           ELSE ParseLines(Tail(lines), Append(icons, FetchedIcon(name)),
                           iconNames \cup {name})

\* The catch branch: one placeholder per category.
FallbackIcons ==
  [i \in 1..Len(MATERIAL_CATEGORIES) |->
     [name |-> MATERIAL_CATEGORIES[i] \o IconSuffix,
      category |-> MATERIAL_CATEGORIES[i],
      tags |-> <<MATERIAL_CATEGORIES[i]>>,
      variant |-> Filled]]

\* A fetch that gives no record when the request fails.
fetchMaterialIconsNoFallback(response) ==
  IF response.kind = "ok"
  THEN ParseLines(TextLines(response.text), <<>>, {})
  ELSE <<>>

\* The records of the name list, or the placeholders when the request fails.
fetchMaterialIcons(response) ==
  IF response.kind = "ok"
  THEN ParseLines(TextLines(response.text), <<>>, {})
  ELSE FallbackIcons

(***************************************************************************)
(* Memory and files.                                                       *)
(***************************************************************************)
Null == 0
Undef == <<"undefined">>

\* The properties that hold a string (or undefined); tags holds an array.
StringProps ==
  {"name", "category", "variant", "description", "svgContent", "_svgPath"}

\* A property read: undefined when the object has no such property.
Val(o, k) == IF Has(o, k) THEN o[k] ELSE Undef
\* The truth value of a string-or-undefined.
Truthy(v) == v # Undef /\ v # <<>>

\* The next free reference, and the heap without what nothing refers to.
NewRef(h) == CHOOSE r \in 1..(Cardinality(DOMAIN h) + 1) : r \notin DOMAIN h
Collect(h, roots) == [r \in (DOMAIN h) \cap roots |-> h[r]]

\* A file is absent, holds text that cannot be read or parsed, or holds the
\* JSON text of an array of objects.
NoFile == [kind |-> "absent", val |-> <<>>]
Garbage == [kind |-> "garbage", val |-> <<>>]
JsonFile(items) == [kind |-> "json", val |-> items]
\* A file that holds the JSON text null.
NullFile == [kind |-> "null", val |-> <<>>]
existsSync(f) == f.kind # "absent"

\* A serialisation that loses the variant.
StringifyWithoutVariant(o) ==
  [k \in {f \in DOMAIN o : f # "variant"} |-> o[k]]

\* JSON.stringify of an array of objects: a property holding undefined is
\* left out.
StringifyObject(o) ==
  [k \in {f \in DOMAIN o : ~(f \in StringProps /\ o[f] = Undef)} |-> o[k]]
JSONstringify(arr) == [i \in 1..Len(arr) |-> StringifyObject(arr[i])]

(***************************************************************************)
(* The contents the files and the network can have.                        *)
(***************************************************************************)
CustomPathStr == <<"/", "c">>
SvgS == <<"<", "s", ">">>

\* A custom file in the format of the README: no variant.
CustomIcons ==
  << [name |-> <<"c", "u">>, category |-> <<"c">>,
      tags |-> << <<"c">>, <<"e">> >>, description |-> <<"d">>,
      svgContent |-> SvgS] >>
WorkspaceIcons ==
  << [name |-> <<"w">>, category |-> Other, tags |-> << <<"w">> >>,
      variant |-> Outlined, description |-> <<"d">>] >>
\* A cache file of an earlier version, with an embedded payload.
CacheIcons ==
  << [name |-> <<"a", "v">>, category |-> <<"a", "v">>,
      tags |-> << <<"a", "v">>, <<"a", "v">> >>, variant |-> Filled,
      svgContent |-> SvgS],
     [name |-> <<"k">>, category |-> Other, tags |-> <<>>] >>
\* The remote name list: "av 1", "av 1" again, "b 2".
RemoteText ==
  <<"a", "v", " ", "1", "\n", "a", "v", " ", "1", "\n", "b", " ", "2">>

CustomFiles == {NoFile, Garbage, JsonFile(CustomIcons)}
WorkspaceFiles == {NoFile, Garbage, JsonFile(WorkspaceIcons)}
CacheFiles == {NoFile, Garbage, JsonFile(CacheIcons)}
NetResponses == {Throws, NotOk, Ok(RemoteText), Ok(<<>>)}
\* A write succeeds, fails leaving the file as it was, or fails part-way.
WriteOutcomes == {"ok", "fail", "partial"}

(***************************************************************************)
(* loadIcons.                                                              *)
(***************************************************************************)
SvgSuffix == <<".", "s", "v", "g">>
\* path.join(extensionPath, "resources", "icons", `${name}_${variant || "filled"}.svg`),
\* relative to the icons directory.
SvgFileName(icon) ==
  Val(icon, "name") \o <<"_">>
    \o (IF Truthy(Val(icon, "variant")) THEN icon.variant ELSE Filled)
    \o SvgSuffix

\* A conversion that attaches the locator and keeps an embedded payload.
LazyIconKeepPayload(icon) == Put(icon, "_svgPath", SvgFileName(icon))

\* icons.map((icon) => ({...icon, svgContent: undefined, _svgPath: ...}))
LazyIcon(icon) ==
  Put(Put(icon, "svgContent", Undef), "_svgPath", SvgFileName(icon))
LazyIcons(icons) == [i \in 1..Len(icons) |-> LazyIcon(icons[i])]

\* What the synchronous part of loadIcons() does, up to its first await:
\*   hit    the memory cache is returned
\*   value  a file was read and parsed: arr is memoised and returned
\*   throw  a read or a parse threw: the catch returns a new empty array
\*   await  no file source: the remote list is requested
\* A read that attaches locators whatever the source.
LoadFromFileAlwaysLazy(f, src, lazy) ==
  IF f.kind = "json"
  THEN [kind |-> "value", src |-> src, arr |-> LazyIcons(f.val)]
  ELSE [kind |-> "throw", src |-> src, arr |-> <<>>]

\* The read and the parse of a source file.
LoadFromFile(f, src, lazy) ==
  IF f.kind = "json"
  THEN [kind |-> "value", src |-> src,
        arr |-> IF lazy THEN LazyIcons(f.val) ELSE f.val]
  ELSE IF f.kind = "null" /\ ~lazy
  THEN [kind |-> "null", src |-> src, arr |-> <<>>]
  ELSE [kind |-> "throw", src |-> src, arr |-> <<>>]

loadIconsWorkspaceFirst ==
  IF materialIconsCache # Null
  THEN [kind |-> "hit", src |-> "memo", arr |-> <<>>]
  ELSE IF workspacePath /\ existsSync(wsFile)
  THEN LoadFromFile(wsFile, "workspace", FALSE)
  ELSE IF customPath # <<>> /\ existsSync(customFile)
  THEN LoadFromFile(customFile, "custom", FALSE)
  ELSE IF extensionPath /\ existsSync(cacheFile)
  THEN LoadFromFile(cacheFile, "cache", TRUE)
  ELSE [kind |-> "await", src |-> "remote", arr |-> <<>>]

\* A resolution that does not look at the cache file.
loadIconsSkipCache ==
  IF materialIconsCache # Null
  THEN [kind |-> "hit", src |-> "memo", arr |-> <<>>]
  ELSE IF customPath # <<>> /\ existsSync(customFile)
  THEN LoadFromFile(customFile, "custom", FALSE)
  ELSE IF workspacePath /\ existsSync(wsFile)
  THEN LoadFromFile(wsFile, "workspace", FALSE)
  ELSE [kind |-> "await", src |-> "remote", arr |-> <<>>]

loadIconsStart ==
  IF materialIconsCache # Null
  THEN [kind |-> "hit", src |-> "memo", arr |-> <<>>]
  ELSE IF customPath # <<>> /\ existsSync(customFile)
  THEN LoadFromFile(customFile, "custom", FALSE)
  ELSE IF workspacePath /\ existsSync(wsFile)
  THEN LoadFromFile(wsFile, "workspace", FALSE)
  ELSE IF extensionPath /\ existsSync(cacheFile)
  THEN LoadFromFile(cacheFile, "cache", TRUE)
  ELSE [kind |-> "await", src |-> "remote", arr |-> <<>>]

\* What a call returned: the array (a reference), the branch that returned
\* it, and the file reads and network requests the call made.
NoReturn == [res |-> Null, src |-> "none", reads |-> 0, fetches |-> 0]
LoadReturn(res, src, reads, fetches) ==
  [res |-> res, src |-> src, reads |-> reads, fetches |-> fetches]

LoadRoots(cache, ret, m) == {cache, m, ret.res}

\* The messages shown to the user.
NoMessage == [kind |-> "none", name |-> <<>>]
NoIconsWarning == [kind |-> "warning", name |-> <<>>]
Message(kind, name) == [kind |-> kind, name |-> name]

\* A text that is the same for every message.
MessageTextSame(m) == <<"Failed to save the custom icon.">>

\* The text of a message and the function of vscode.window that shows it.
MessageText(m) ==
  CASE m.kind = "saved" -> <<"Icon \"", m.name, "\" has been saved.">>
    [] m.kind = "updated" -> <<"Icon \"", m.name, "\" has been updated.">>
    [] m.kind = "noWorkspace" -> <<"No workspace folder found to save icon.">>
    [] m.kind = "failed" -> <<"Failed to save the custom icon.">>
    [] m.kind = "noEditor" ->
         <<"No active text editor found. Please open a file to use the icon picker.">>
    [] m.kind = "warning" ->
         <<"No material icons found. Please add material-icons.json to your workspace or ensure network connectivity.">>
    [] m.kind = "none" -> <<>>
MessageLevel(m) ==
  CASE m.kind \in {"saved", "updated"} -> "showInformationMessage"
    [] m.kind \in {"noWorkspace", "failed", "noEditor"} -> "showErrorMessage"
    [] m.kind = "warning" -> "showWarningMessage"
    [] m.kind = "none" -> "none"

\* A callback that never warns.
WarnsNever(icons) == FALSE

\* The callback of activate() warns when the array has no element.
Warns(icons) == Len(icons) = 0

\* loadIcons() is called: its synchronous part runs to the first await or
\* to its return.  The calls that await the name list hold no state of
\* their own, so they are counted.  When activate() makes the call, its
\* collection starts as a new empty array and the callback of the promise
\* runs as soon as the call has returned: it takes the array returned and
\* warns when it is empty.
CallLoadIcons(fromActivate) ==
  LET o == loadIconsStart
      r == NewRef(heap)
      alloc == o.kind \in {"value", "throw"}
                 \/ (fromActivate /\ o.kind = "await")
      result == IF o.kind = "hit" THEN heap[materialIconsCache] ELSE o.arr
  IN  /\ o.kind = "await" => inFlight < MaxLoads
      /\ inFlight' = IF o.kind = "await" THEN inFlight + 1 ELSE inFlight
      /\ returned' =
           CASE o.kind = "hit" -> LoadReturn(materialIconsCache, "memo", 0, 0)
             [] o.kind = "value" -> LoadReturn(r, o.src, 1, 0)
             [] o.kind = "throw" -> LoadReturn(r, "error", 1, 0)
             [] o.kind = "null" -> LoadReturn(Null, o.src, 1, 0)
             [] o.kind = "await" -> returned
      /\ materialIconsCache' =
           IF o.kind = "value" THEN r ELSE materialIconsCache
      /\ memo' = IF o.kind = "value" /\ memo = Null THEN r ELSE memo
      /\ IF fromActivate
         THEN /\ ~activated
              /\ activated' = TRUE
              /\ materialIcons' =
                   CASE o.kind = "hit" -> materialIconsCache
                     [] o.kind = "null" -> Null
                     [] OTHER -> r
              /\ message' =
                   IF o.kind \notin {"await", "null"} /\ Warns(result)
                   THEN NoIconsWarning ELSE message
              /\ UNCHANGED <<saved, fetched>>
         ELSE UNCHANGED regVars
      /\ warnings' =
           IF fromActivate /\ o.kind \notin {"await", "null"} /\ Warns(result)
           THEN warnings + 1 ELSE warnings
      /\ heap' =
           Collect(IF alloc THEN Put(heap, r, o.arr) ELSE heap,
                   LoadRoots(materialIconsCache', returned', memo')
                     \cup {materialIcons'})
      /\ UNCHANGED <<envVars, svgVars, fetchVars, surfVars, picker>>

LoadCall == CallLoadIcons(FALSE)

\* The answer to the request of fetchMaterialIcons() arrives and loadIcons()
\* runs to its return: the cache file is written when the extension path is
\* known and the list is not empty, and a write that throws is caught by the
\* catch of loadIcons, which returns a new empty array.  The call of an
\* active session is the one of activate(), whose callback then runs.
FetchReturn(response, w) ==
  /\ inFlight > 0
  /\ LET icons == fetchMaterialIcons(response)
         writes == extensionPath /\ Len(icons) > 0
         r == NewRef(heap)
     IN  /\ writes \/ w = "ok"
         /\ cacheFile' =
              IF ~writes THEN cacheFile
              ELSE CASE w = "ok" -> JsonFile(JSONstringify(icons))
                     [] w = "fail" -> cacheFile
                     [] w = "partial" -> Garbage
         /\ inFlight' = inFlight - 1
         /\ returned' =
              LoadReturn(r, IF w = "ok" THEN "remote" ELSE "error", 0, 1)
         /\ materialIconsCache' = IF w = "ok" THEN r ELSE materialIconsCache
         /\ memo' = IF w = "ok" /\ memo = Null THEN r ELSE memo
         /\ materialIcons' = IF activated THEN r ELSE materialIcons
         /\ message' =
              IF activated /\ Warns(IF w = "ok" THEN icons ELSE <<>>)
              THEN NoIconsWarning ELSE message
         /\ warnings' =
              IF activated /\ Warns(IF w = "ok" THEN icons ELSE <<>>)
              THEN warnings + 1 ELSE warnings
         /\ fetched' =
              IF response.kind = "ok" /\ w = "ok"
              THEN [set |-> TRUE, icons |-> icons]
              ELSE IF cacheFile' # cacheFile THEN [set |-> FALSE, icons |-> <<>>]
              ELSE fetched
         /\ heap' =
              Collect(Put(heap, r, IF w = "ok" THEN icons ELSE <<>>),
                      LoadRoots(materialIconsCache', returned', memo')
                        \cup {materialIcons'})
  /\ UNCHANGED <<customPath, customFile, workspacePath, wsFile, extensionPath,
                 svgVars, activated, saved, fetchVars, surfVars, picker>>

\* deactivate(): the memory cache is cleared.  What was returned earlier is
\* no longer observed; a call in flight stays in flight.
Deactivate ==
  /\ materialIconsCache' = Null
  /\ memo' = Null
  /\ returned' = NoReturn
  /\ heap' = <<>>
  /\ UNCHANGED <<inFlight, envVars, svgVars, regVars, fetchVars, uiVars>>

(***************************************************************************)
(* The environment: the user changes the setting or edits a file.          *)
(***************************************************************************)
ConfigureCustomPath(f) ==
  /\ \/ customPath' = <<>> /\ f = NoFile
     \/ customPath' = CustomPathStr
  /\ customFile' = f
  /\ <<customPath', customFile'>> # <<customPath, customFile>>
  /\ UNCHANGED <<workspacePath, wsFile, extensionPath, cacheFile, loadVars,
                 svgVars, regVars, fetchVars, uiVars>>

EditWorkspaceFile(f) ==
  /\ workspacePath
  /\ wsFile' = f
  /\ f # wsFile
  /\ UNCHANGED <<customPath, customFile, workspacePath, extensionPath,
                 cacheFile, loadVars, svgVars, regVars, fetchVars, uiVars>>

EditCacheFile(f) ==
  /\ extensionPath
  /\ cacheFile' = f
  /\ f # cacheFile
  /\ fetched' = [set |-> FALSE, icons |-> <<>>]
  /\ UNCHANGED <<customPath, customFile, workspacePath, wsFile,
                 extensionPath, loadVars, svgVars, activated, materialIcons,
                 message, saved, fetchVars, uiVars>>

(***************************************************************************)
(* Spec: the loadIcons() calls of one process, in any environment.         *)
(***************************************************************************)
IdleEnv ==
  /\ customPath = <<>>
  /\ customFile = NoFile
  /\ workspacePath = FALSE
  /\ wsFile = NoFile
  /\ extensionPath = FALSE
  /\ cacheFile = NoFile

IdleLoad ==
  /\ materialIconsCache = Null
  /\ heap = <<>>
  /\ inFlight = 0
  /\ returned = NoReturn
  /\ memo = Null

\* What getSvgContent() returned: for which record, the value (Undef for
\* undefined), where it came from, and the disk reads and network requests
\* the call made.
NoSvgReturn ==
  [icon |-> 0, val |-> Undef, src |-> "none", reads |-> 0, fetches |-> 0]
SvgIds == 1..MaxSvgCalls

\* No getSvgContent() call was made.
IdleSvg ==
  /\ svgFiles = <<>>
  /\ svgCalls = [c \in SvgIds |-> 0]
  /\ svgReturned = NoSvgReturn

NoSaved == [set |-> FALSE, icons |-> <<>>]

\* activate() has not run.
IdleReg ==
  /\ activated = FALSE
  /\ materialIcons = Null
  /\ message = NoMessage
  /\ saved = NoSaved
  /\ fetched = NoSaved

IdleFetch ==
  /\ fetchIn = Throws
  /\ fetchOut = <<>>
  /\ fetchPc = "done"

\* No surface has answered and no picker is open.
NoAnswer == [surface |-> "none", kind |-> "none", items |-> <<>>, early |-> FALSE]
NoPicker == [open |-> FALSE]
IdleUi ==
  /\ warnings = 0
  /\ answer = NoAnswer
  /\ pickWaiting = FALSE
  /\ picker = NoPicker

Init ==
  /\ customPath \in {<<>>, CustomPathStr}
  /\ customFile \in CustomFiles
  /\ customPath = <<>> => customFile = NoFile
  /\ workspacePath \in BOOLEAN
  /\ wsFile \in WorkspaceFiles
  /\ ~workspacePath => wsFile = NoFile
  /\ extensionPath \in BOOLEAN
  /\ cacheFile \in CacheFiles
  /\ ~extensionPath => cacheFile = NoFile
  /\ IdleLoad
  /\ IdleSvg
  /\ IdleReg
  /\ IdleFetch
  /\ IdleUi

Next ==
  \/ LoadCall
  \/ \E response \in NetResponses, w \in WriteOutcomes :
       FetchReturn(response, w)
  \/ Deactivate
  \/ \E f \in CustomFiles : ConfigureCustomPath(f)
  \/ \E f \in WorkspaceFiles : EditWorkspaceFile(f)
  \/ \E f \in CacheFiles : EditCacheFile(f)

Spec == Init /\ [][Next]_vars

(***************************************************************************)
(* C1 - C6: loadIcons.                                                     *)
(***************************************************************************)
AllSourcesValid ==
  /\ customPath # <<>> /\ customFile.kind = "json"
  /\ workspacePath /\ wsFile.kind = "json"
  /\ extensionPath /\ cacheFile.kind = "json"

\* C1: a loadIcons() call issued with an empty memory cache while the custom
\* file, the workspace file and the cache file all exist and hold valid JSON
\* returns exactly the records of the custom file, memoises them, and makes
\* one file read and no network request.
C1_CustomPathWins ==
  [][(LoadCall /\ materialIconsCache = Null /\ AllSourcesValid) =>
       /\ inFlight' = inFlight
       /\ heap'[returned'.res] = customFile.val
       /\ materialIconsCache' = returned'.res
       /\ returned'.fetches = 0
       /\ returned'.reads = 1]_vars

C1_Witness ==
  /\ AllSourcesValid
  /\ returned.src = "custom"
  /\ heap[returned.res] = CustomIcons
  /\ heap[returned.res] # wsFile.val
  /\ materialIconsCache = returned.res

\* What a record of the cache file is without its payload fields.
Portable(icon) == Del(Del(icon, "svgContent"), "_svgPath")
PortableIcons(icons) == [i \in 1..Len(icons) |-> Portable(icons[i])]

\* The file sources of C2: a call issued with an empty memory cache returns
\* the custom file's records when that file is there, else the workspace
\* file's, else the cache file's (payloads aside), else asks the remote host.
FileSourcesInOrder ==
  (LoadCall /\ materialIconsCache = Null) =>
    IF customPath # <<>> /\ customFile.kind = "json"
    THEN heap'[returned'.res] = customFile.val
    ELSE IF customPath # <<>> /\ existsSync(customFile) THEN TRUE
    ELSE IF workspacePath /\ wsFile.kind = "json"
    THEN heap'[returned'.res] = wsFile.val
    ELSE IF workspacePath /\ existsSync(wsFile) THEN TRUE
    ELSE IF extensionPath /\ cacheFile.kind = "json"
    THEN PortableIcons(heap'[returned'.res]) = PortableIcons(cacheFile.val)
    ELSE IF extensionPath /\ existsSync(cacheFile) THEN TRUE
    ELSE inFlight' = inFlight + 1

\* The part of C2 that holds of the code: the order of the file sources.
C2_FileSourcesHold == [][FileSourcesInOrder]_vars

\* C2 (as stated): a call issued with an empty memory cache returns the
\* content of the first source that is present, in the order custom path,
\* workspace, local cache, remote; for the remote source, the list the host
\* answered with.
C2_FirstPresentSource ==
  [][/\ FileSourcesInOrder
     /\ \A response \in NetResponses, w \in WriteOutcomes :
          (FetchReturn(response, w) /\ response.kind = "ok") =>
            heap'[returned'.res] = fetchMaterialIcons(response)]_vars

\* C3 (as stated): a file that exists but cannot be read or parsed counts as
\* an unavailable source: the call goes on to the next source in the order
\* and returns what that source gives, neither an empty result nor an error.
FirstValidFile ==
  IF customPath # <<>> /\ customFile.kind = "json" THEN customFile.val
  ELSE IF workspacePath /\ wsFile.kind = "json" THEN wsFile.val
  ELSE IF extensionPath /\ cacheFile.kind = "json"
  THEN PortableIcons(cacheFile.val)
  ELSE <<>>
HasValidFile ==
  \/ customPath # <<>> /\ customFile.kind = "json"
  \/ workspacePath /\ wsFile.kind = "json"
  \/ extensionPath /\ cacheFile.kind = "json"
MeetsGarbage ==
  \/ customPath # <<>> /\ customFile.kind = "garbage"
  \/ workspacePath /\ wsFile.kind = "garbage"
  \/ extensionPath /\ cacheFile.kind = "garbage"
C3_MalformedFallsThrough ==
  [][(LoadCall /\ materialIconsCache = Null /\ MeetsGarbage) =>
       IF ~HasValidFile THEN inFlight' = inFlight + 1
       ELSE /\ returned'.src # "error"
            /\ PortableIcons(heap'[returned'.res])
                 = PortableIcons(FirstValidFile)]_vars

\* C4 (as stated): calls issued while another call is in flight make no
\* request of their own, so at most one request for the name list is in
\* flight, and a call that returns after another one resolved returns that
\* one's collection.
C4_SingleFlight ==
  [][/\ inFlight' <= 1
     /\ \A response \in NetResponses, w \in WriteOutcomes :
          (FetchReturn(response, w) /\ memo # Null) =>
            returned'.res = memo]_vars

\* C5 (as stated): once a call has resolved a collection from a source, every
\* later call before deactivate() returns that same collection without a
\* file read or a network request; after deactivate() the next call resolves
\* from the sources again.
C5_MemoisedUntilDeactivate ==
  [][LoadCall =>
       IF memo # Null
       THEN /\ inFlight' = inFlight
            /\ returned'.res = memo
            /\ returned'.reads = 0
            /\ returned'.fetches = 0
       ELSE inFlight' = inFlight + 1 \/ returned'.src # "memo"]_vars

\* C6 (as stated): with no custom path, no workspace file and no cache file,
\* a call whose request for the name list fails returns the fallback set:
\* one record per entry of MATERIAL_CATEGORIES, named <category>_icon.
IsFallbackSet(icons) ==
  /\ Len(icons) = Len(MATERIAL_CATEGORIES)
  /\ \A i \in 1..Len(icons) :
       /\ icons[i].name = MATERIAL_CATEGORIES[i] \o IconSuffix
       /\ icons[i].category = MATERIAL_CATEGORIES[i]
C6_FallbackOnNetworkFailure ==
  [][\A response \in NetResponses, w \in WriteOutcomes :
       (/\ FetchReturn(response, w)
        /\ response.kind # "ok"
        /\ customPath = <<>>
        /\ ~existsSync(wsFile)
        /\ ~existsSync(cacheFile)) =>
         IsFallbackSet(heap'[returned'.res])]_vars

(***************************************************************************)
(* getSvgContent.  The record a call works on is the one at a position of  *)
(* the memoised collection.                                                *)
(***************************************************************************)
TextFile(s) == [kind |-> "text", val |-> s]
\* The file at a path of the icons directory.
FileAt(files, p) == IF p \in DOMAIN files THEN files[p] ELSE NoFile

SvgDisk == <<"<", "d", ">">>
SvgNet == <<"<", "n", ">">>
\* The answers to the request for one icon's graphic; a body may be empty.
SvgResponses == {Throws, NotOk, Ok(SvgNet), Ok(<<>>)}
\* The collections getSvgContent() is applied to: loaded from the cache file,
\* fetched from the remote host, read from a custom file.
SvgCollections ==
  {LazyIcons(CacheIcons), fetchMaterialIcons(Ok(RemoteText)), CustomIcons}
\* The states of a payload file: absent, unreadable, holding a graphic, empty.
SvgFileStates == {NoFile, Garbage, TextFile(SvgDisk), TextFile(<<>>)}

\* The return of a getSvgContent() call.
SvgResult(i, val, src, reads, fetches) ==
  [icon |-> i, val |-> val, src |-> src, reads |-> reads, fetches |-> fetches]

\* A getSvgContent(icon) that does not look at icon.svgContent.
getSvgContentNoMemo(icon, files) ==
  IF Has(icon, "_svgPath") /\ existsSync(FileAt(files, icon._svgPath))
  THEN IF FileAt(files, icon._svgPath).kind = "text"
       THEN [kind |-> "disk", val |-> FileAt(files, icon._svgPath).val]
       ELSE [kind |-> "throw", val |-> Undef]
  ELSE [kind |-> "await", val |-> Undef]

\* The synchronous part of getSvgContent(icon), up to its first await:
\*   memory  icon.svgContent is set and returned
\*   disk    the file at icon._svgPath is read, attached and returned
\*   throw   the read threw: the catch logs and undefined is returned
\*   await   the graphic is requested from the remote host
getSvgContentStart(icon, files) ==
  IF Truthy(Val(icon, "svgContent"))
  THEN [kind |-> "memory", val |-> icon.svgContent]
  ELSE IF Has(icon, "_svgPath") /\ existsSync(FileAt(files, icon._svgPath))
  THEN IF FileAt(files, icon._svgPath).kind = "text"
       THEN [kind |-> "disk", val |-> FileAt(files, icon._svgPath).val]
       ELSE [kind |-> "throw", val |-> Undef]
  ELSE [kind |-> "await", val |-> Undef]

\* `${icon.name}_${icon.variant || ""}.svg`, the variant as in the URL.
WrittenFileNameAsUrl(icon) ==
  Val(icon, "name") \o <<"_">>
    \o (IF Truthy(Val(icon, "variant")) THEN icon.variant ELSE <<>>)
    \o SvgSuffix

\* The file getSvgContent() writes the fetched payload to, in the icons
\* directory: `${icon.name}_${icon.variant || "filled"}.svg`
WrittenFileName(icon) ==
  Val(icon, "name") \o <<"_">>
    \o (IF Truthy(Val(icon, "variant")) THEN icon.variant ELSE Filled)
    \o SvgSuffix

\* The array with every record given the payload.
WithPayloadEvery(arr, i, content) ==
  [j \in 1..Len(arr) |-> Put(arr[j], "svgContent", content)]

\* The array with the record at position i given a payload.
WithPayload(arr, i, content) ==
  [arr EXCEPT ![i] = Put(arr[i], "svgContent", content)]

\* getSvgContent(icon) is called on the record at position i.
SvgCall(c, i) ==
  /\ materialIconsCache # Null
  /\ svgCalls[c] = 0
  /\ i \in 1..Len(heap[materialIconsCache])
  /\ LET icon == heap[materialIconsCache][i]
         o == getSvgContentStart(icon, svgFiles)
     IN  /\ svgCalls' = [svgCalls EXCEPT ![c] = IF o.kind = "await" THEN i ELSE 0]
         /\ svgReturned' =
              CASE o.kind = "memory" -> SvgResult(i, o.val, "memory", 0, 0)
                [] o.kind = "disk" -> SvgResult(i, o.val, "disk", 1, 0)
                [] o.kind = "throw" -> SvgResult(i, Undef, "error", 1, 0)
                [] o.kind = "await" -> svgReturned
         /\ heap' =
              IF o.kind = "disk"
              THEN [heap EXCEPT ![materialIconsCache] = WithPayload(@, i, o.val)]
              ELSE heap
  /\ UNCHANGED <<envVars, svgFiles, materialIconsCache, inFlight, returned,
                 memo, regVars, fetchVars, uiVars>>

\* The answer to the request arrives and getSvgContent() runs to its return:
\* a successful answer is attached to the record and, when the extension
\* path is known, written to the icons directory; a write that throws is
\* caught and undefined is returned.
SvgReturn(c, response, w) ==
  /\ svgCalls[c] # 0
  /\ LET i == svgCalls[c]
         icon == heap[materialIconsCache][i]
         ok == response.kind = "ok"
         writes == ok /\ extensionPath
     IN  /\ writes \/ w = "ok"
         /\ svgCalls' = [svgCalls EXCEPT ![c] = 0]
         /\ heap' =
              IF ok
              THEN [heap EXCEPT
                      ![materialIconsCache] = WithPayload(@, i, response.text)]
              ELSE heap
         /\ svgFiles' =
              IF ~writes THEN svgFiles
              ELSE CASE w = "ok" ->
                          Put(svgFiles, WrittenFileName(icon),
                              TextFile(response.text))
                     [] w = "fail" -> svgFiles
                     [] w = "partial" ->
                          Put(svgFiles, WrittenFileName(icon), Garbage)
         /\ svgReturned' =
              IF ok /\ w = "ok"
              THEN SvgResult(i, response.text, "network", 0, 1)
              ELSE SvgResult(i, Undef, "error", 0, 1)
  /\ UNCHANGED <<envVars, materialIconsCache, inFlight, returned, memo,
                 regVars, fetchVars, uiVars>>

(***************************************************************************)
(* The command materialIcons.saveCustomIcon.  What the user enters in the  *)
(* five prompts is a candidate; a prompt that was dismissed gives          *)
(* undefined.  The collection is read after the last prompt only, so the   *)
(* command acts in one step.                                               *)
(***************************************************************************)
Comma == ","
CustomIconPrefix ==
  <<"C", "u", "s", "t", "o", "m", " ", "i", "c", "o", "n", ":", " ">>
TagsText == <<"t", ",", " ", "u">>

Candidate(iconName, category, tags, svgContent, variant) ==
  [iconName |-> iconName, category |-> category, tags |-> tags,
   svgContent |-> svgContent, variant |-> variant]

Candidates ==
  {Candidate(<<"w">>, <<"c">>, <<>>, <<>>, Outlined),
   Candidate(<<"k">>, <<"c">>, TagsText, SvgS, Undef),
   Candidate(<<"b">>, Other, Undef, Undef, Undef),
   Candidate(<<>>, <<"c">>, Undef, Undef, Undef),
   Candidate(<<"w">>, Undef, Undef, Undef, Undef)}

\* variant || "filled"
VariantOrFilled(variant) == IF Truthy(variant) THEN variant ELSE Filled

\* tags ? tags.split(",").map((tag) => tag.trim()) : []
TagList(tags) ==
  IF Truthy(tags)
  THEN [i \in 1..Len(Split(tags, Comma)) |-> Trim(Split(tags, Comma)[i])]
  ELSE <<>>

\* A search that finds nothing.
findIndexNone(arr, iconName, variant) == 0

\* Array.prototype.findIndex, from 1, 0 when no element matches.
findIndex(arr, iconName, variant) ==
  LET hits == {i \in 1..Len(arr) :
                 /\ Val(arr[i], "name") = iconName
                 /\ Val(arr[i], "variant") = VariantOrFilled(variant)}
  IN  IF hits = {} THEN 0 ELSE CHOOSE i \in hits : \A j \in hits : i <= j

\* The record the command builds.
CustomIcon(cand) ==
  [name |-> cand.iconName, category |-> cand.category,
   tags |-> TagList(cand.tags), svgContent |-> cand.svgContent,
   variant |-> VariantOrFilled(cand.variant),
   description |-> CustomIconPrefix \o cand.iconName]

\* A command that always pushes the record.
UpsertAlwaysPush(arr, cand) == Append(arr, CustomIcon(cand))

\* A command that leaves the collection as it is.
UpsertNothing(arr, cand) == arr

\* The collection after the command replaced or pushed the record.
Upsert(arr, cand) ==
  LET k == findIndex(arr, cand.iconName, cand.variant)
  IN  IF k # 0 THEN [arr EXCEPT ![k] = CustomIcon(cand)]
      ELSE Append(arr, CustomIcon(cand))

\* What a surface answered.
Answer(surface, kind, items, early) ==
  [surface |-> surface, kind |-> kind, items |-> items, early |-> early]

\* The command runs with the candidate cand; w is the outcome of the write
\* of the workspace file.  With a collection that is null, findIndex throws
\* outside the try of the command.
Register(cand, w) ==
  /\ activated
  /\ Truthy(cand.iconName)
  /\ Truthy(cand.category)
  /\ IF materialIcons = Null
     THEN /\ w = "ok"
          /\ answer' = Answer("registrar", "threw", <<>>, inFlight > 0)
          /\ UNCHANGED <<wsFile, materialIconsCache, heap, memo, message,
                         saved, warnings, pickWaiting, picker>>
     ELSE LET arr == heap[materialIcons]
              k == findIndex(arr, cand.iconName, cand.variant)
              new == Upsert(arr, cand)
          IN  /\ Len(new) <= MaxIcons
              /\ workspacePath \/ w = "ok"
              /\ materialIconsCache' = materialIcons
              /\ memo' = IF memo = Null THEN materialIcons ELSE memo
              /\ heap' = Collect([heap EXCEPT ![materialIcons] = new],
                                 LoadRoots(materialIconsCache', returned, memo')
                                   \cup {materialIcons})
              /\ wsFile' =
                   IF ~workspacePath THEN wsFile
                   ELSE CASE w = "ok" -> JsonFile(JSONstringify(new))
                          [] w = "fail" -> wsFile
                          [] w = "partial" -> Garbage
              /\ message' =
                   IF ~workspacePath THEN Message("noWorkspace", <<>>)
                   ELSE IF w # "ok" THEN Message("failed", <<>>)
                   ELSE IF k # 0 THEN Message("updated", cand.iconName)
                   ELSE Message("saved", cand.iconName)
              /\ saved' =
                   IF workspacePath /\ w = "ok" THEN [set |-> TRUE, icons |-> new]
                   ELSE IF wsFile' # wsFile THEN NoSaved
                   ELSE saved
              /\ UNCHANGED uiVars
  /\ UNCHANGED <<customPath, customFile, workspacePath, extensionPath,
                 cacheFile, inFlight, returned, svgVars, activated,
                 materialIcons, fetched, fetchVars>>

\* activate(): the one call of loadIcons() of a session.
Activate == CallLoadIcons(TRUE)

\* The session ends: deactivate() clears the memory cache and the process
\* goes, with the collection of activate() and the requests that are
\* awaited.
EndSession ==
  /\ activated
  /\ activated' = FALSE
  /\ materialIcons' = Null
  /\ message' = NoMessage
  /\ materialIconsCache' = Null
  /\ memo' = Null
  /\ returned' = NoReturn
  /\ inFlight' = 0
  /\ heap' = <<>>
  /\ svgCalls' = [c \in SvgIds |-> 0]
  /\ svgReturned' = NoSvgReturn
  /\ warnings' = 0
  /\ answer' = NoAnswer
  /\ pickWaiting' = FALSE
  /\ UNCHANGED <<envVars, svgFiles, saved, fetched, fetchVars, picker>>

(***************************************************************************)
(* SpecReg: sessions of the extension with registrations of custom icons.  *)
(***************************************************************************)
RegInit ==
  /\ customPath = <<>>
  /\ customFile = NoFile
  /\ workspacePath \in BOOLEAN
  /\ wsFile \in WorkspaceFiles
  /\ ~workspacePath => wsFile = NoFile
  /\ extensionPath \in BOOLEAN
  /\ cacheFile \in CacheFiles
  /\ ~extensionPath => cacheFile = NoFile
  /\ IdleLoad
  /\ IdleSvg
  /\ IdleReg
  /\ IdleFetch
  /\ IdleUi

RegNext ==
  \/ Activate
  \/ \E response \in NetResponses, w \in WriteOutcomes :
       FetchReturn(response, w)
  \/ \E cand \in Candidates, w \in WriteOutcomes : Register(cand, w)
  \/ EndSession

SpecReg == RegInit /\ [][RegNext]_vars

(***************************************************************************)
(* SpecSvg: sessions with getSvgContent() calls on the records of the      *)
(* collection.  It starts in a session whose load has resolved, with any   *)
(* state of the payload files; the requests for payloads get any answer.   *)
(* A later session resolves from a file; the request for the name list of  *)
(* a session without file stays unanswered.                                *)
(***************************************************************************)
SvgInit ==
  /\ workspacePath = FALSE
  /\ wsFile = NoFile
  /\ extensionPath \in BOOLEAN
  /\ \E coll \in SvgCollections :
       /\ heap = <<coll>>
       /\ svgFiles \in [{SvgFileName(coll[i]) : i \in 1..Len(coll)}
                          -> SvgFileStates]
       /\ IF coll = CustomIcons
          THEN /\ customPath = CustomPathStr
               /\ customFile = JsonFile(CustomIcons)
               /\ cacheFile = NoFile
               /\ returned = LoadReturn(1, "custom", 1, 0)
               /\ fetched = NoSaved
          ELSE IF coll = LazyIcons(CacheIcons)
          THEN /\ customPath = <<>>
               /\ customFile = NoFile
               /\ extensionPath
               /\ cacheFile = JsonFile(CacheIcons)
               /\ returned = LoadReturn(1, "cache", 1, 0)
               /\ fetched = NoSaved
          ELSE /\ customPath = <<>>
               /\ customFile = NoFile
               /\ cacheFile = IF extensionPath
                               THEN JsonFile(JSONstringify(coll)) ELSE NoFile
               /\ returned = LoadReturn(1, "remote", 0, 1)
               /\ fetched = [set |-> TRUE, icons |-> coll]
  /\ materialIconsCache = 1
  /\ memo = 1
  /\ inFlight = 0
  /\ svgCalls = [c \in SvgIds |-> 0]
  /\ svgReturned = NoSvgReturn
  /\ activated = TRUE
  /\ materialIcons = 1
  /\ message = NoMessage
  /\ saved = NoSaved
  /\ IdleFetch
  /\ IdleUi

SvgNext ==
  \/ \E c \in SvgIds, i \in 1..MaxIcons : SvgCall(c, i)
  \/ \E c \in SvgIds, response \in SvgResponses, w \in WriteOutcomes :
       SvgReturn(c, response, w)
  \/ EndSession
  \/ Activate

SpecSvg == SvgInit /\ [][SvgNext]_vars

(***************************************************************************)
(* C8.                                                                     *)
(***************************************************************************)
\* The payload the record at position i carries, Undef when it carries none.
PayloadAt(i) == Val(heap[materialIconsCache][i], "svgContent")

\* C8 (as stated): whatever the first call did and returned, a second call
\* on the same record makes no disk read and no request and returns the
\* value the first memoised, the two calls making at most one read or
\* request in total.
C8_SecondCallNoIO ==
  [][\A c \in SvgIds, i \in 1..MaxIcons :
       (SvgCall(c, i) /\ svgReturned.icon = i) =>
         /\ svgCalls'[c] = 0
         /\ svgReturned'.val = PayloadAt(i)
         /\ svgReturned'.reads = 0
         /\ svgReturned'.fetches = 0
         /\ svgReturned.reads + svgReturned.fetches <= 1]_vars

\* C8 (amended): when the call that returned last on a record left a
\* non-empty payload on it, the next call on that record makes no disk read
\* and no request, changes nothing and returns that payload, the two calls
\* having made at most one disk read or one network request; a payload the
\* first call returned is the payload it left.  When the first call left no
\* payload or an empty one (failed read, failed or empty answer), the next
\* call reads the disk or requests the network again.
C8_SecondCallMemoised ==
  [][\A c \in SvgIds, i \in 1..MaxIcons :
       (SvgCall(c, i) /\ svgReturned.icon = i) =>
         /\ Truthy(svgReturned.val) => PayloadAt(i) = svgReturned.val
         /\ IF Truthy(PayloadAt(i))
            THEN /\ svgCalls'[c] = 0
                 /\ svgReturned' = SvgResult(i, PayloadAt(i), "memory", 0, 0)
                 /\ heap' = heap
                 /\ svgFiles' = svgFiles
                 /\ svgReturned.reads + svgReturned.fetches <= 1
            ELSE \/ svgCalls'[c] = i
                 \/ svgReturned'.reads = 1]_vars

\* A call returned from memory a payload that an earlier call had read from
\* disk or fetched: the collection came without payloads in memory.
C8_Witness ==
  /\ materialIconsCache # Null
  /\ svgReturned.src = "memory"
  /\ heap[materialIconsCache] # CustomIcons
  /\ svgReturned.val \in {SvgDisk, SvgNet}
  /\ svgReturned.reads = 0
  /\ svgReturned.fetches = 0

(***************************************************************************)
(* C9, C10.                                                                *)
(***************************************************************************)
\* The positions of the records of arr whose stored name and variant are
\* those of the candidate.
KeyMatches(arr, cand) ==
  {i \in 1..Len(arr) :
     /\ Has(arr[i], "name") /\ arr[i].name = cand.iconName
     /\ Has(arr[i], "variant")
     /\ arr[i].variant = VariantOrFilled(cand.variant)}

\* The record at position i of arr carries what the candidate gave.
CarriesCandidate(arr, i, cand) ==
  /\ arr[i].name = cand.iconName
  /\ arr[i].variant = VariantOrFilled(cand.variant)
  /\ arr[i].category = cand.category
  /\ arr[i].tags = TagList(cand.tags)
  /\ Val(arr[i], "svgContent") = cand.svgContent
  /\ arr[i].description = CustomIconPrefix \o cand.iconName

\* C9: a registration whose (name, variant) key is that of a record of the
\* collection replaces category, tags, payload and description of that
\* record at its position and leaves the length and every other record as
\* they were; a registration with a key not in the collection appends the
\* record at the end and the length grows by exactly one.
C9_RegistrarUpsert ==
  [][\A cand \in Candidates, w \in WriteOutcomes :
       Register(cand, w) =>
         LET old == heap[materialIcons]
             new == heap'[materialIcons']
         IN  /\ materialIcons' = materialIcons
             /\ IF KeyMatches(old, cand) # {}
                THEN /\ Len(new) = Len(old)
                     /\ \E i \in KeyMatches(old, cand) :
                          /\ CarriesCandidate(new, i, cand)
                          /\ \A j \in 1..Len(old) : j # i => new[j] = old[j]
                ELSE /\ Len(new) = Len(old) + 1
                     /\ SubSeq(new, 1, Len(old)) = old
                     /\ CarriesCandidate(new, Len(new), cand)]_vars

\* The records of arr that a registration built.
CustomAt(arr) ==
  {i \in 1..Len(arr) :
     /\ Has(arr[i], "description")
     /\ Len(arr[i].description) > Len(CustomIconPrefix)
     /\ SubSeq(arr[i].description, 1, Len(CustomIconPrefix)) = CustomIconPrefix}

\* A registration replaced a record in a collection that holds two records
\* built by registrations.
C9_Witness ==
  /\ activated
  /\ message.kind = "updated"
  /\ Cardinality(CustomAt(heap[materialIcons])) >= 2

\* The (name, variant, category, tags) of a record, with the fields it has.
Tuple(icon) ==
  [k \in {"name", "variant", "category", "tags"} \cap DOMAIN icon |-> icon[k]]
Tuples(arr) == [i \in 1..Len(arr) |-> Tuple(arr[i])]

\* C10: after a successful registration the workspace file holds the whole
\* collection in memory, and a loadIcons() of a new session that resolves
\* from the workspace file, as that registration left it, returns a
\* collection with the same sequence of (name, variant, category, tags).
C10_RoundTrip ==
  [][/\ \A cand \in Candidates, w \in WriteOutcomes :
          (Register(cand, w) /\ message'.kind \in {"saved", "updated"}) =>
            /\ wsFile'.kind = "json"
            /\ Len(wsFile'.val) = Len(heap'[materialIcons'])
            /\ Tuples(wsFile'.val) = Tuples(heap'[materialIcons'])
     /\ (Activate /\ returned'.src = "workspace" /\ saved.set) =>
            /\ Len(heap'[returned'.res]) = Len(saved.icons)
            /\ Tuples(heap'[returned'.res]) = Tuples(saved.icons)
            /\ materialIcons' = returned'.res]_vars

\* A new session loaded from the workspace file the collection that a
\* registration of an earlier session had saved.
C10_Witness ==
  /\ activated
  /\ saved.set
  /\ message = NoMessage
  /\ returned.src = "workspace"
  /\ Len(heap[returned.res]) >= 2
  /\ CustomAt(heap[returned.res]) # {}

(***************************************************************************)
(* SpecFetch: fetchMaterialIcons applied to every response whose text has  *)
(* at most MaxTextLen characters of FetchAlphabet.                         *)
(***************************************************************************)
FetchAlphabet == {"a", "v", " ", "\n"}

TextsUpTo(n) == UNION {[1..k -> FetchAlphabet] : k \in 0..n}

FetchInit ==
  /\ fetchIn \in {Throws, NotOk} \cup {Ok(t) : t \in TextsUpTo(MaxTextLen)}
  /\ fetchOut = <<>>
  /\ fetchPc = "start"
  /\ IdleEnv
  /\ IdleLoad
  /\ IdleSvg
  /\ IdleReg
  /\ IdleUi

FetchRun ==
  /\ fetchPc = "start"
  /\ fetchOut' = fetchMaterialIcons(fetchIn)
  /\ fetchPc' = "done"
  /\ UNCHANGED <<fetchIn, envVars, loadVars, svgVars, regVars, uiVars>>

SpecFetch == FetchInit /\ [][FetchRun]_vars

(***************************************************************************)
(* C7.                                                                     *)
(***************************************************************************)
\* The lines of a text by position: a line starts at 1 or after a newline
\* and ends before the next newline or at the end of the text.
LineStarts(text) ==
  {p \in 1..(Len(text) + 1) : p = 1 \/ text[p - 1] = "\n"}
LineEnd(text, p) ==
  LET nl == {q \in p..Len(text) : text[q] = "\n"}
  IN  IF nl = {} THEN Len(text) + 1 ELSE CHOOSE q \in nl : \A r \in nl : q <= r
\* A non-blank line holds a character that is not whitespace.
NonBlankAt(text, p) ==
  \E q \in p..(LineEnd(text, p) - 1) : text[q] \notin Whitespace
\* The first token of the line at p: its characters before the first space.
NameAt(text, p) ==
  LET sp == {q \in p..(LineEnd(text, p) - 1) : text[q] = " "}
      e == IF sp = {} THEN LineEnd(text, p)
           ELSE CHOOSE q \in sp : \A r \in sp : q <= r
  IN  SubSeq(text, p, e - 1)
NameStarts(text) == {p \in LineStarts(text) : NonBlankAt(text, p)}
FirstStart(text, name) ==
  LET ps == {p \in NameStarts(text) : NameAt(text, p) = name}
  IN  CHOOSE p \in ps : \A q \in ps : p <= q

HoldsLocator(f) ==
  f.kind = "json" /\ \E i \in 1..Len(f.val) : Has(f.val[i], "_svgPath")

\* C11: no metadata file, neither the cache file nor the workspace file,
\* holds an element with a payload locator (_svgPath).
C11_NoLocatorInFiles == ~HoldsLocator(cacheFile) /\ ~HoldsLocator(wsFile)

(***************************************************************************)
(* C12.                                                                    *)
(***************************************************************************)
\* activate() of a session that follows one whose load resolved through a
\* successful answer of the remote host, the extension path being known and
\* there being no custom path and no workspace file.
LaterSessionAfterFetch ==
  /\ Activate
  /\ fetched.set
  /\ extensionPath
  /\ customPath = <<>>
  /\ ~(workspacePath /\ existsSync(wsFile))

\* The load resolved from the cache file with what the fetch produced and
\* without a request.
ResolvedFromCache ==
  /\ returned'.src = "cache"
  /\ returned'.fetches = 0
  /\ inFlight' = inFlight
  /\ Len(heap'[returned'.res]) = Len(fetched.icons)
  /\ Tuples(heap'[returned'.res]) = Tuples(fetched.icons)

\* C12 (as stated): after a session whose load resolved through a successful
\* remote fetch, the load of a later session resolves from the cache file,
\* returns the (name, variant, category, tags) the fetch produced and makes
\* no network request.
C12_CacheAfterFetch == [][LaterSessionAfterFetch => ResolvedFromCache]_vars

\* C12 (amended): the same, when the fetch produced at least one record; a
\* fetch that produced no record writes no cache file, and the load of the
\* later session then resolves as it would have without that fetch.
C12_CacheAfterNonEmptyFetch ==
  [][LaterSessionAfterFetch =>
       IF Len(fetched.icons) > 0 THEN ResolvedFromCache
       ELSE /\ cacheFile \in CacheFiles
            /\ returned'.src # "cache" \/ cacheFile = JsonFile(CacheIcons)]_vars

\* A later session resolved from the cache file that a fetch had written.
C12_Witness ==
  /\ activated
  /\ fetched.set
  /\ Len(fetched.icons) > 0
  /\ returned.src = "cache"
  /\ cacheFile = JsonFile(JSONstringify(fetched.icons))

(***************************************************************************)
(* C13.                                                                    *)
(***************************************************************************)
\* The locator loadIcons() attaches to a record of the cache file with the
\* (name, variant) of icon.
LocatorFor(icon) ==
  LazyIcon([k \in {"name", "variant"} \cap DOMAIN icon |-> icon[k]])._svgPath

\* C13: when getSvgContent() has fetched a payload and written it, the file
\* at the locator that loadIcons() attaches for that (name, variant) holds
\* the payload; and in a session that loaded from the cache file, a call
\* on a record with no payload in memory whose file at the written path
\* holds a payload returns that payload from the file, attaches it and
\* makes no request.
C13_WrittenPathIsLocator ==
  [][/\ \A c \in SvgIds, w \in WriteOutcomes, response \in SvgResponses :
          (SvgReturn(c, response, w) /\ svgReturned'.src = "network"
             /\ extensionPath) =>
            FileAt(svgFiles', LocatorFor(heap[materialIconsCache][svgCalls[c]]))
              = TextFile(response.text)
     /\ \A c \in SvgIds, i \in 1..MaxIcons :
          (SvgCall(c, i) /\ returned.src = "cache"
             /\ materialIconsCache = returned.res
             /\ ~Truthy(PayloadAt(i))
             /\ FileAt(svgFiles, WrittenFileName(heap[materialIconsCache][i])).kind
                  = "text") =>
            LET file == FileAt(svgFiles,
                               WrittenFileName(heap[materialIconsCache][i]))
            IN  /\ svgCalls'[c] = 0
                /\ svgReturned'.fetches = 0
                /\ svgReturned'.val = file.val
                /\ svgReturned'.src = "disk"
                /\ svgReturned'.reads = 1
                /\ Val(heap'[materialIconsCache'][i], "svgContent") = file.val]_vars

\* In a session that loaded from the cache file a call returned from disk
\* the payload that a call of an earlier session had fetched and written.
C13_Witness ==
  /\ activated
  /\ returned.src = "cache"
  /\ fetched.set
  /\ svgReturned.src = "disk"
  /\ svgReturned.val = SvgNet
  /\ svgReturned.fetches = 0

(***************************************************************************)
(* C14.                                                                    *)
(***************************************************************************)
\* The collection of activate() holds a record that carries the candidate.
HoldsCandidate(arr, cand) ==
  \E i \in 1..Len(arr) :
    /\ {"name", "variant", "category", "tags", "description"}
         \subseteq DOMAIN arr[i]
    /\ CarriesCandidate(arr, i, cand)

\* C14: a registration without workspace folder and a registration whose
\* write fails each end in an error message; the two texts differ from one
\* another and from the texts of success; after a failed write the
\* collection in memory still holds the record.
C14_DistinctFailures ==
  [][\A cand \in Candidates, w \in WriteOutcomes :
       Register(cand, w) =>
         LET texts == [k \in {"saved", "updated", "noWorkspace", "failed"} |->
                         MessageText(Message(k, cand.iconName))]
         IN  /\ texts["noWorkspace"] # texts["failed"]
             /\ \A k \in {"saved", "updated"} :
                  texts[k] \notin {texts["noWorkspace"], texts["failed"]}
             /\ ~workspacePath =>
                  /\ MessageLevel(message') = "showErrorMessage"
                  /\ MessageText(message') = texts["noWorkspace"]
                  /\ wsFile' = wsFile
             /\ (workspacePath /\ w # "ok") =>
                  /\ MessageLevel(message') = "showErrorMessage"
                  /\ MessageText(message') = texts["failed"]
                  /\ HoldsCandidate(heap'[materialIcons'], cand)
                  /\ materialIconsCache' = materialIcons'
             /\ (workspacePath /\ w = "ok") =>
                  /\ MessageLevel(message') = "showInformationMessage"
                  /\ MessageText(message') \in {texts["saved"], texts["updated"]}]_vars

\* A registration ended in the error of the failed write and its record is
\* in the collection.
C14_Witness ==
  /\ activated
  /\ message.kind = "failed"
  /\ workspacePath
  /\ CustomAt(heap[materialIcons]) # {}

(***************************************************************************)
(* C15.                                                                    *)
(***************************************************************************)
\* The collection of the surfaces is the memoised collection, which is what
\* a loadIcons() call now returns.
Shared ==
  /\ activated
  /\ materialIconsCache # Null
  /\ materialIconsCache = materialIcons
  /\ loadIconsStart.kind = "hit"

\* The (name, variant) of the records of arr that registrations built.
CustomKeys(arr) == {<<arr[i].name, arr[i].variant>> : i \in CustomAt(arr)}

\* C15: a registration issued when the initial load has completed leaves
\* one collection, that of the surfaces and of loadIcons(), which holds
\* the record; and as long as the session lasts every later step leaves it
\* one collection that holds a registered record for each key registered.
C15_RegisteredIsShared ==
  [][/\ \A cand \in Candidates, w \in WriteOutcomes :
          (Register(cand, w) /\ inFlight = 0) =>
            /\ Shared'
            /\ HoldsCandidate(heap'[materialIcons'], cand)
     /\ (Shared /\ inFlight = 0 /\ activated') =>
            /\ Shared'
            /\ materialIcons' = materialIcons
            /\ CustomKeys(heap[materialIcons])
                 \subseteq CustomKeys(heap'[materialIcons'])]_vars

\* After a load from the workspace file a registration was made, and the
\* collection of the surfaces is the memoised one and holds the record.
C15_Witness ==
  /\ Shared
  /\ inFlight = 0
  /\ returned.src = "workspace"
  /\ message.kind = "saved"
  /\ CustomAt(heap[materialIcons]) # {}

(***************************************************************************)
(* C16.                                                                    *)
(***************************************************************************)
\* C16: when the load of activate() resolves, the records registered while
\* it was in flight are still in the collection of the surfaces and in the
\* memoised collection.
C16_RegisteredSurvivesLoad ==
  [][\A response \in NetResponses, w \in WriteOutcomes :
       (FetchReturn(response, w) /\ activated
          /\ CustomKeys(heap[materialIcons]) # {}) =>
         /\ CustomKeys(heap[materialIcons])
              \subseteq CustomKeys(heap'[materialIcons'])
         /\ materialIconsCache' # Null
         /\ CustomKeys(heap[materialIcons])
              \subseteq CustomKeys(heap'[materialIconsCache'])]_vars

(***************************************************************************)
(* C17.                                                                    *)
(***************************************************************************)
\* C17: when the remote host answered the name list and the write of the
\* cache file (or the creation of its directories) throws, loadIcons()
\* returns the fetched records and memoises them.
C17_CacheWriteFailureNonFatal ==
  [][\A response \in NetResponses, w \in WriteOutcomes :
       (FetchReturn(response, w) /\ response.kind = "ok" /\ w # "ok") =>
         /\ heap'[returned'.res] = fetchMaterialIcons(response)
         /\ materialIconsCache' = returned'.res]_vars

(***************************************************************************)
(* C18.                                                                    *)
(***************************************************************************)
\* C18: getSvgContent() returns undefined only when the request failed: a
\* call that returns without a request returns a payload, a call whose
\* request was answered successfully returns the payload of the answer, and
\* when undefined is returned the record has no payload.
C18_AbsentOnlyOnNetworkFailure ==
  [][/\ \A c \in SvgIds, i \in 1..MaxIcons :
          (SvgCall(c, i) /\ svgCalls'[c] = 0) => svgReturned'.val # Undef
     /\ \A c \in SvgIds, response \in SvgResponses, w \in WriteOutcomes :
          SvgReturn(c, response, w) =>
            /\ response.kind = "ok" => svgReturned'.val = response.text
            /\ svgReturned'.val = Undef =>
                 ~Truthy(Val(heap'[materialIconsCache'][svgCalls[c]],
                             "svgContent"))]_vars

\* The part of C18 about the answered request alone.
C18_AnsweredReturnsPayload ==
  [][\A c \in SvgIds, response \in SvgResponses, w \in WriteOutcomes :
       (SvgReturn(c, response, w) /\ response.kind = "ok") =>
         svgReturned'.val = response.text]_vars

(***************************************************************************)
(* C19.                                                                    *)
(***************************************************************************)
\* The stored (name, variant) of a record.
Key(icon) == <<Val(icon, "name"), Val(icon, "variant")>>

\* No two records of arr have the same (name, variant).
UniqueKeys(arr) ==
  \A i, j \in 1..Len(arr) : Key(arr[i]) = Key(arr[j]) => i = j

\* C19: in a session whose collection was not read from a file, that is
\* built by fetchMaterialIcons() and by registrations, no two records of
\* the collection of the surfaces, and none of the memoised collection,
\* share the same (name, variant).
C19_UniqueKeysAfterRegistrations ==
  (activated /\ returned.src \notin {"custom", "workspace", "cache"}) =>
    /\ UniqueKeys(heap[materialIcons])
    /\ materialIconsCache # Null => UniqueKeys(heap[materialIconsCache])

\* A fetched collection in which one registration replaced a fetched record
\* and another appended one.
C19_Witness ==
  /\ activated
  /\ returned.src = "remote"
  /\ materialIcons = returned.res
  /\ message.kind = "updated"
  /\ Len(heap[materialIcons]) >= 3
  /\ CustomAt(heap[materialIcons]) # {}

(***************************************************************************)
(* C20.                                                                    *)
(***************************************************************************)
\* The positions of the records of arr with the name of the candidate and
\* no variant.
NoVariantMatches(arr, cand) ==
  {i \in 1..Len(arr) :
     Val(arr[i], "name") = cand.iconName /\ ~Has(arr[i], "variant")}

\* C20: a record without variant counts as one of variant 'filled': its
\* payload file is the one of (name, 'filled'), and a registration of
\* (name, 'filled') when the collection holds a record of that name without
\* variant replaces that record and appends nothing.
C20_NoVariantIsFilled ==
  [][\A cand \in Candidates, w \in WriteOutcomes :
       (Register(cand, w) /\ VariantOrFilled(cand.variant) = Filled
          /\ NoVariantMatches(heap[materialIcons], cand) # {}) =>
         LET old == heap[materialIcons]
             new == heap'[materialIcons']
         IN  /\ \A i \in NoVariantMatches(old, cand) :
                  /\ SvgFileName(old[i])
                       = SvgFileName(Put(old[i], "variant", Filled))
                  /\ WrittenFileName(old[i])
                       = WrittenFileName(Put(old[i], "variant", Filled))
             /\ Len(new) = Len(old)
             /\ \E i \in NoVariantMatches(old, cand) :
                  CarriesCandidate(new, i, cand)]_vars

\* The part of C20 about the payload file: in every collection in memory a
\* record without variant has the payload file of (name, 'filled').
C20_NoVariantPayloadPath ==
  \A r \in DOMAIN heap : \A i \in 1..Len(heap[r]) :
    ~Has(heap[r][i], "variant") =>
      /\ SvgFileName(heap[r][i]) = Val(heap[r][i], "name") \o <<"_">> \o Filled \o SvgSuffix
      /\ WrittenFileName(heap[r][i]) = SvgFileName(heap[r][i])

(***************************************************************************)
(* C21.                                                                    *)
(***************************************************************************)
\* The cache file is the source a loadIcons() call resolves from.
CacheIsTheSource ==
  /\ materialIconsCache = Null
  /\ ~(customPath # <<>> /\ existsSync(customFile))
  /\ ~(workspacePath /\ existsSync(wsFile))
  /\ extensionPath
  /\ cacheFile.kind = "json"

\* C21: a loadIcons() call that resolves from the cache file returns, for
\* every record of the file, a record with the locator of its (name,
\* variant) and without payload, also when the file embeds one, and makes
\* no network request.
C21_CacheLoadIsLazy ==
  [][(LoadCall /\ CacheIsTheSource) =>
       LET icons == heap'[returned'.res]
       IN  /\ returned'.src = "cache"
           /\ returned'.fetches = 0
           /\ inFlight' = inFlight
           /\ Len(icons) = Len(cacheFile.val)
           /\ \A i \in 1..Len(icons) :
                /\ Has(icons[i], "_svgPath")
                /\ icons[i]._svgPath =
                     Val(cacheFile.val[i], "name") \o <<"_">>
                       \o (IF Has(cacheFile.val[i], "variant")
                           THEN cacheFile.val[i].variant ELSE Filled)
                       \o <<".", "s", "v", "g">>
                /\ Val(icons[i], "svgContent") = Undef
                /\ Tuple(icons[i]) = Tuple(cacheFile.val[i])]_vars

\* A call resolved from a cache file that embeds a payload.
C21_Witness ==
  /\ returned.src = "cache"
  /\ returned.res # Null
  /\ cacheFile.kind = "json"
  /\ \E i \in 1..Len(cacheFile.val) : Has(cacheFile.val[i], "svgContent")
  /\ \A i \in 1..Len(heap[returned.res]) : Has(heap[returned.res][i], "_svgPath")

(***************************************************************************)
(* C22.                                                                    *)
(***************************************************************************)
\* The file a loadIcons() call resolves from, when that is the custom file
\* or the workspace file.
OverrideSource ==
  IF customPath # <<>> /\ existsSync(customFile) THEN customFile
  ELSE IF workspacePath /\ existsSync(wsFile) THEN wsFile
  ELSE NoFile

\* C22: a loadIcons() call that resolves from the custom file or from the
\* workspace file returns the records of the file as they are, no field
\* added or removed, and changes no file: not the cache file, not a payload
\* file, not the source.
C22_OverrideLoadIsPure ==
  [][(LoadCall /\ materialIconsCache = Null /\ OverrideSource.kind = "json") =>
       /\ returned'.src \in {"custom", "workspace"}
       /\ heap'[returned'.res] = OverrideSource.val
       /\ \A i \in 1..Len(OverrideSource.val) :
            DOMAIN heap'[returned'.res][i] = DOMAIN OverrideSource.val[i]
       /\ returned'.fetches = 0
       /\ inFlight' = inFlight
       /\ UNCHANGED <<envVars, svgFiles>>]_vars

\* A call resolved from the workspace file while the extension path is
\* known and there is no cache file.
C22_Witness ==
  /\ returned.src = "workspace"
  /\ returned.res # Null
  /\ wsFile.kind = "json"
  /\ heap[returned.res] = wsFile.val
  /\ extensionPath
  /\ cacheFile = NoFile

(***************************************************************************)
(* C23.                                                                    *)
(***************************************************************************)
\* getSvgContent(icon) run on its own, from the call to its return, the
\* request, if one is made, being answered by response and the write having
\* the outcome w: the record, the payload files and the value returned.
getSvgContentAlone(icon, files, response, w) ==
  IF Truthy(Val(icon, "svgContent"))
  THEN [icon |-> icon, files |-> files, val |-> icon.svgContent]
  ELSE IF Has(icon, "_svgPath") /\ existsSync(FileAt(files, icon._svgPath))
  THEN IF FileAt(files, icon._svgPath).kind = "text"
       THEN [icon |-> Put(icon, "svgContent", FileAt(files, icon._svgPath).val),
             files |-> files, val |-> FileAt(files, icon._svgPath).val]
       ELSE [icon |-> icon, files |-> files, val |-> Undef]
  ELSE IF response.kind # "ok"
  THEN [icon |-> icon, files |-> files, val |-> Undef]
  ELSE IF ~extensionPath
  THEN [icon |-> Put(icon, "svgContent", response.text), files |-> files,
        val |-> response.text]
  ELSE [icon |-> Put(icon, "svgContent", response.text),
        files |-> CASE w = "ok" -> Put(files, WrittenFileName(icon),
                                       TextFile(response.text))
                    [] w = "fail" -> files
                    [] w = "partial" -> Put(files, WrittenFileName(icon), Garbage),
        val |-> IF w = "ok" THEN response.text ELSE Undef]

\* The step leaves every record but the one at position i, and every
\* payload file but the one of that record, as they were.
TouchesOnly(i) ==
  LET old == heap[materialIconsCache]
      new == heap'[materialIconsCache']
  IN  /\ materialIconsCache' = materialIconsCache
      /\ Len(new) = Len(old)
      /\ \A j \in 1..Len(old) : j # i => new[j] = old[j]
      /\ \A k \in DOMAIN old[i] \cup DOMAIN new[i] :
           k # "svgContent" => (Has(old[i], k) /\ Has(new[i], k)
                                  /\ new[i][k] = old[i][k])
      /\ \A p \in DOMAIN svgFiles \cup DOMAIN svgFiles' :
           p # WrittenFileName(old[i]) => FileAt(svgFiles', p) = FileAt(svgFiles, p)

\* C23: the records of a collection have payload files of their own; every
\* step of a getSvgContent() call changes at most the payload of its record
\* and the payload file of its record; and a call whose record no other
\* call has changed ends with the record, the files and the value of the
\* call run on its own.  So calls for different records, interleaved in any
\* order, end in the state of the calls run one after another.
C23_CallsAreIndependent ==
  [][/\ \A c \in SvgIds, i \in 1..MaxIcons :
          SvgCall(c, i) =>
            LET old == heap[materialIconsCache]
            IN  /\ \A j \in 1..Len(old) :
                     j # i => WrittenFileName(old[j]) # WrittenFileName(old[i])
                /\ TouchesOnly(i)
                /\ svgFiles' = svgFiles
                /\ svgCalls'[c] = 0 =>
                     \A response \in SvgResponses, w \in WriteOutcomes :
                       LET alone == getSvgContentAlone(old[i], svgFiles,
                                                       response, w)
                       IN  /\ heap'[materialIconsCache'][i] = alone.icon
                           /\ svgReturned'.val = alone.val
     /\ \A c \in SvgIds, response \in SvgResponses, w \in WriteOutcomes :
          SvgReturn(c, response, w) =>
            LET i == svgCalls[c]
                old == heap[materialIconsCache]
                alone == getSvgContentAlone(old[i], svgFiles, response, w)
            IN  /\ TouchesOnly(i)
                /\ \A d \in SvgIds : d # c => svgCalls'[d] = svgCalls[d]
                /\ getSvgContentStart(old[i], svgFiles).kind = "await" =>
                     /\ heap'[materialIconsCache'][i] = alone.icon
                     /\ svgFiles' = alone.files
                     /\ svgReturned'.val = alone.val]_vars

\* The call for one record has fetched and written its payload while the
\* call for another record awaits its answer.
C23_Witness ==
  /\ materialIconsCache # Null
  /\ svgReturned.src = "network"
  /\ \E c \in SvgIds : svgCalls[c] \notin {0, svgReturned.icon}
  /\ FileAt(svgFiles, WrittenFileName(heap[materialIconsCache][svgReturned.icon]))
       = TextFile(SvgNet)

(***************************************************************************)
(* SpecSurf: sessions of the extension with requests to its surfaces, the  *)
(* override files holding an array, no array (the JSON text null) or       *)
(* nothing.                                                                *)
(***************************************************************************)
\* new vscode.CompletionItem for one record.
CompletionItem(icon) ==
  [label |-> icon.name, detail |-> Val(icon, "category") \o <<" icon ">>,
   insertText |-> icon.name]
CompletionItems(arr) == [i \in 1..Len(arr) |-> CompletionItem(arr[i])]

\* The record the picker hands to its webview.
WebviewIcon(icon) ==
  [k \in DOMAIN icon \cap {"name", "category", "tags", "variant"} |-> icon[k]]
WebviewIcons(arr) == [i \in 1..Len(arr) |-> WebviewIcon(arr[i])]

\* provideCompletionItems(): outside a <mat-icon> tag it returns undefined;
\* inside it maps the collection of activate() as it is at that moment.
Complete(inTag) ==
  /\ activated
  /\ answer' =
       IF ~inTag THEN Answer("completion", "undefined", <<>>, inFlight > 0)
       ELSE IF materialIcons = Null
       THEN Answer("completion", "threw", <<>>, inFlight > 0)
       ELSE Answer("completion", "items",
                   CompletionItems(heap[materialIcons]), inFlight > 0)
  /\ UNCHANGED <<envVars, loadVars, svgVars, regVars, fetchVars, warnings,
                 pickWaiting, picker>>

\* materialIcons.showIconPicker up to its await: without an editor it shows
\* an error; with a collection that has records it goes on at once; else it
\* awaits iconsPromise, which has settled or not.
PickStart(editor) ==
  /\ activated
  /\ ~pickWaiting
  /\ IF ~editor
     THEN /\ message' = Message("noEditor", <<>>)
          /\ answer' = Answer("picker", "undefined", <<>>, inFlight > 0)
          /\ UNCHANGED pickWaiting
     ELSE IF materialIcons = Null
     THEN /\ answer' = Answer("picker", "threw", <<>>, inFlight > 0)
          /\ UNCHANGED <<message, pickWaiting>>
     ELSE IF Len(heap[materialIcons]) = 0 /\ inFlight > 0
     THEN /\ pickWaiting' = TRUE
          /\ UNCHANGED <<message, answer>>
     ELSE /\ answer' = Answer("picker", "items",
                              WebviewIcons(heap[materialIcons]), FALSE)
          /\ UNCHANGED <<message, pickWaiting>>
  /\ UNCHANGED <<envVars, loadVars, svgVars, activated, materialIcons, saved,
                 fetched, fetchVars, warnings, picker>>

\* The picker command goes on after its await: iconsPromise has resolved
\* with the array the callback of activate() took.
PickResume ==
  /\ activated
  /\ pickWaiting
  /\ inFlight = 0
  /\ pickWaiting' = FALSE
  /\ answer' = Answer("picker", "items", WebviewIcons(heap[materialIcons]), TRUE)
  /\ UNCHANGED <<envVars, loadVars, svgVars, regVars, fetchVars, warnings,
                 picker>>

SurfCustomFiles == {NoFile, NullFile, JsonFile(<<>>), JsonFile(CustomIcons)}
SurfWorkspaceFiles == {NoFile, NullFile, JsonFile(WorkspaceIcons)}
SurfCacheFiles == {NoFile, JsonFile(CacheIcons)}

\* The candidate the registrar is run with in these sessions.
SurfCandidates == {cand \in Candidates : cand.iconName = <<"w">>}

SurfInit ==
  /\ customPath \in {<<>>, CustomPathStr}
  /\ customFile \in SurfCustomFiles
  /\ customPath = <<>> => customFile = NoFile
  /\ workspacePath \in BOOLEAN
  /\ wsFile \in SurfWorkspaceFiles
  /\ ~workspacePath => wsFile = NoFile
  /\ extensionPath \in BOOLEAN
  /\ cacheFile \in SurfCacheFiles
  /\ ~extensionPath => cacheFile = NoFile
  /\ IdleLoad
  /\ IdleSvg
  /\ IdleReg
  /\ IdleFetch
  /\ IdleUi

SurfNext ==
  \/ Activate
  \/ \E response \in NetResponses, w \in WriteOutcomes :
       FetchReturn(response, w)
  \/ \E inTag \in BOOLEAN : Complete(inTag)
  \/ \E editor \in BOOLEAN : PickStart(editor)
  \/ PickResume
  \/ \E cand \in SurfCandidates, w \in WriteOutcomes : Register(cand, w)
  \/ EndSession

SpecSurf == SurfInit /\ [][SurfNext]_vars

(***************************************************************************)
(* C24.                                                                    *)
(***************************************************************************)
\* C24: a loadIcons() call that has returned has returned an array.
C24_AlwaysAnArray == returned.src # "none" => returned.res # Null


(***************************************************************************)
(* C25.                                                                    *)
(***************************************************************************)
\* The load of activate() has resolved and the collection it gave, with
\* what the registrar did to it since, has no record.
ResolvedEmpty ==
  /\ activated
  /\ inFlight = 0
  /\ materialIcons # Null
  /\ Len(heap[materialIcons]) = 0

\* C25: a session shows the warning once, in the step in which its load
\* resolves to an array without records, and in no other step; with such a
\* collection the completion provider answers the empty list, the picker
\* answers the empty list without throwing and the registrar ends with one
\* of its messages.
C25_EmptyLoadWarnsOnce ==
  [][/\ warnings' \in {0, 1}
     /\ warnings' # warnings =>
          \/ EndSession
          \/ /\ ~ResolvedEmpty
             /\ ResolvedEmpty'
             /\ warnings = 0
             /\ message' = NoIconsWarning
             /\ MessageLevel(message') = "showWarningMessage"
     /\ (~ResolvedEmpty /\ ResolvedEmpty') => warnings' = 1
     /\ ResolvedEmpty =>
          /\ warnings = 1
          /\ Complete(TRUE) => answer' = Answer("completion", "items", <<>>, FALSE)
          /\ PickStart(TRUE) =>
               /\ answer' = Answer("picker", "items", <<>>, FALSE)
               /\ ~pickWaiting'
          /\ PickResume => answer' = Answer("picker", "items", <<>>, TRUE)
          /\ \A cand \in SurfCandidates, w \in WriteOutcomes :
               Register(cand, w) =>
                 /\ answer' = answer
                 /\ message'.kind \in {"saved", "noWorkspace", "failed"}
                 /\ warnings' = 1]_vars

\* A session whose load resolved to no record: the warning has been shown
\* once and the completion provider has answered the empty list.
C25_Witness ==
  /\ ResolvedEmpty
  /\ warnings = 1
  /\ message = NoIconsWarning
  /\ answer = Answer("completion", "items", <<>>, FALSE)


(***************************************************************************)
(* C26.                                                                    *)
(***************************************************************************)
\* The load of activate() is pending.
LoadPending == activated /\ inFlight > 0

\* C26: no request to the completion provider inside a tag and no picker
\* command is answered while the load is pending; a request made while it
\* is pending is answered after it has resolved, with the items of the
\* resolved collection.
C26_SurfacesAwaitLoad ==
  [][/\ (LoadPending /\ (Complete(TRUE) \/ PickStart(TRUE))) => answer' = answer
     /\ PickResume =>
          /\ ~LoadPending
          /\ answer' = Answer("picker", "items",
                              WebviewIcons(heap[materialIcons]), TRUE)]_vars

\* The picker alone: a command run while the load is pending, the
\* collection having no record, waits, and is answered after the load has
\* resolved with the records of the resolved collection.
C26_PickerAwaitsLoad ==
  [][/\ (LoadPending /\ Len(heap[materialIcons]) = 0 /\ PickStart(TRUE)) =>
          (answer' = answer /\ pickWaiting')
     /\ PickResume =>
          /\ ~LoadPending
          /\ answer' = Answer("picker", "items",
                              WebviewIcons(heap[materialIcons]), TRUE)]_vars


(***************************************************************************)
(* C27.                                                                    *)
(***************************************************************************)
\* The cache file as a load whose request failed writes it.
FallbackCacheFile == JsonFile(JSONstringify(FallbackIcons))

\* C27: a load whose request for the name list fails, the extension path
\* being known and the write succeeding, leaves the fallback set in the
\* cache file and returns it; a load in a later session, without memory
\* cache, without custom file and without workspace file, that finds this
\* cache file returns the fallback set from it and makes no request.
C27_FallbackIsCached ==
  [][/\ \A response \in NetResponses :
          (FetchReturn(response, "ok") /\ response.kind # "ok" /\ extensionPath) =>
            /\ cacheFile' = FallbackCacheFile
            /\ returned'.src = "remote"
            /\ heap'[returned'.res] = FallbackIcons
     /\ (LoadCall /\ CacheIsTheSource /\ cacheFile = FallbackCacheFile) =>
          LET icons == heap'[returned'.res]
          IN  /\ returned'.src = "cache"
              /\ returned'.fetches = 0
              /\ inFlight' = inFlight
              /\ cacheFile' = cacheFile
              /\ Len(icons) = Len(FallbackIcons)
              /\ \A i \in 1..Len(icons) : Tuple(icons[i]) = Tuple(FallbackIcons[i])]_vars

\* A load has returned the fallback set from the cache file.
C27_Witness ==
  /\ returned.src = "cache"
  /\ cacheFile = FallbackCacheFile
  /\ Len(heap[returned.res]) = Len(FallbackIcons)
  /\ heap[returned.res][1].name = MATERIAL_CATEGORIES[1] \o IconSuffix


(***************************************************************************)
(* SpecPicker: the script of the picker's webview.  The records are held   *)
(* by their position in the list the extension handed over, as the script  *)
(* holds them by reference.                                                *)
(***************************************************************************)
itemsPerPage == 100

\* String.prototype.toLowerCase, over the letters of the inputs.
toLowerCase(s) == [i \in 1..Len(s) |-> IF s[i] = "A" THEN "a" ELSE s[i]]

\* Math.ceil(a / b) for a >= 0 and b > 0.
MathCeil(a, b) == (a + b - 1) \div b

\* The lists the webview is opened with: the record at position i.
PickerIcon(i) ==
  [name |-> IF i % 3 = 0 THEN <<"a", "b">> ELSE <<"b">>,
   category |-> IF i % 4 = 0 THEN Other ELSE MATERIAL_CATEGORIES[1],
   tags |-> IF i % 3 = 0 THEN << <<"a", "b">> >> ELSE <<>>,
   variant |-> IF i % 2 = 0 THEN Outlined ELSE Filled]
PickerSizes == {0, 1, itemsPerPage, itemsPerPage + 1, MaxPickerIcons}

\* What the user types or selects in the three controls.
SearchInputs == {<<>>, <<"A">>, <<"z">>}
CategoryInputs == {<<>>, MATERIAL_CATEGORIES[1]}
VariantInputs == {<<>>, Outlined}

\* The predicate of icons.filter in filterIcons.
Matches(i, search, category, variant) ==
  LET icon == PickerIcon(i)
  IN  /\ \/ search = <<>>
         \/ Includes(toLowerCase(icon.name), search)
         \/ \E k \in 1..Len(icon.tags) : Includes(toLowerCase(icon.tags[k]), search)
      /\ category = <<>> \/ icon.category = category
      /\ variant = <<>> \/ icon.variant = variant

\* A page that is always the first one.
PageSliceFirst(filtered, page) ==
  SubSeq(filtered, 1, IF itemsPerPage < Len(filtered) THEN itemsPerPage
                      ELSE Len(filtered))

\* filteredIcons.slice(startIndex, endIndex) of renderCurrentPage.
PageSlice(filtered, page) ==
  LET startIndex == (page - 1) * itemsPerPage
      endIndex == IF startIndex + itemsPerPage < Len(filtered)
                  THEN startIndex + itemsPerPage ELSE Len(filtered)
  IN  SubSeq(filtered, startIndex + 1, endIndex)

\* renderCurrentPage(): the grid is rebuilt; updatePagination() runs only
\* when the page has records.
Rendered(p) ==
  LET currentIcons == PageSlice(p.filteredIcons, p.currentPage)
      totalPages == MathCeil(Len(p.filteredIcons), itemsPerPage)
  IN  IF Len(currentIcons) = 0
      THEN [p EXCEPT !.grid = <<>>]
      ELSE [p EXCEPT !.grid = currentIcons,
                     !.pageInfo = <<p.currentPage,
                                    IF totalPages = 0 THEN 1 ELSE totalPages>>,
                     !.prevDisabled = (p.currentPage <= 1),
                     !.nextDisabled = (p.currentPage >= totalPages)]

\* The script has run to its end: the first filterIcons() call has set its
\* timer, the loading text is shown and the grid is empty.
PickerOpened(n) ==
  [open |-> TRUE, n |-> n, search |-> <<>>, category |-> <<>>, variant |-> <<>>,
   timers |-> 1, loading |-> TRUE, filteredIcons |-> [i \in 1..n |-> i],
   currentPage |-> 1, grid |-> <<>>, pageInfo |-> <<1, 1>>,
   prevDisabled |-> TRUE, nextDisabled |-> FALSE]

\* The user changes a control: filterIcons() shows the loading text and
\* sets a timer.
FilterInput(search, category, variant) ==
  /\ picker.open
  /\ picker.timers < MaxTimers
  /\ <<search, category, variant>> #
       <<picker.search, picker.category, picker.variant>>
  /\ picker' = [picker EXCEPT !.search = search, !.category = category,
                              !.variant = variant, !.loading = TRUE,
                              !.timers = @ + 1]
  /\ UNCHANGED <<envVars, loadVars, svgVars, regVars, fetchVars, warnings,
                 surfVars>>

\* A timer of filterIcons() fires: the list is filtered by the controls as
\* they are now, the page is reset and rendered, the grid is shown.
FilterTimer ==
  /\ picker.open
  /\ picker.timers > 0
  /\ picker' =
       [Rendered([picker EXCEPT
                    !.filteredIcons =
                       SelectSeq([i \in 1..picker.n |-> i],
                                 LAMBDA i : Matches(i, toLowerCase(picker.search),
                                                    picker.category,
                                                    picker.variant)),
                    !.currentPage = 1])
          EXCEPT !.loading = FALSE, !.timers = @ - 1]
  /\ UNCHANGED <<envVars, loadVars, svgVars, regVars, fetchVars, warnings,
                 surfVars>>

\* A click on Previous: the button is shown and not disabled.
PrevClick ==
  /\ picker.open
  /\ ~picker.loading
  /\ ~picker.prevDisabled
  /\ picker' = IF picker.currentPage > 1
               THEN Rendered([picker EXCEPT !.currentPage = @ - 1])
               ELSE picker
  /\ UNCHANGED <<envVars, loadVars, svgVars, regVars, fetchVars, warnings,
                 surfVars>>

\* A click on Next: the button is shown and not disabled.
NextClick ==
  /\ picker.open
  /\ ~picker.loading
  /\ ~picker.nextDisabled
  /\ picker' =
       IF picker.currentPage < MathCeil(Len(picker.filteredIcons), itemsPerPage)
       THEN Rendered([picker EXCEPT !.currentPage = @ + 1])
       ELSE picker
  /\ UNCHANGED <<envVars, loadVars, svgVars, regVars, fetchVars, warnings,
                 surfVars>>

PickerInit ==
  /\ picker \in {PickerOpened(n) : n \in PickerSizes}
  /\ IdleEnv
  /\ IdleLoad
  /\ IdleSvg
  /\ IdleReg
  /\ IdleFetch
  /\ warnings = 0
  /\ answer = NoAnswer
  /\ pickWaiting = FALSE

PickerNext ==
  \/ \E search \in SearchInputs, category \in CategoryInputs,
        variant \in VariantInputs : FilterInput(search, category, variant)
  \/ FilterTimer
  \/ PrevClick
  \/ NextClick

SpecPicker == PickerInit /\ [][PickerNext]_vars

(***************************************************************************)
(* C28.                                                                    *)
(***************************************************************************)
\* The page is within its range and, once a timer has rendered, the grid
\* holds the records of filteredIcons at the positions of the page.
PageInRange(p) ==
  LET n == Len(p.filteredIcons)
      pages == IF n = 0 THEN 1
               ELSE CHOOSE k \in 1..n :
                      (k - 1) * itemsPerPage < n /\ n <= k * itemsPerPage
      first == (p.currentPage - 1) * itemsPerPage
  IN  /\ p.currentPage >= 1
      /\ p.currentPage <= pages
      /\ ~p.loading =>
           /\ Len(p.grid) = (IF n - first < itemsPerPage THEN n - first
                             ELSE itemsPerPage)
           /\ \A k \in 1..Len(p.grid) : p.grid[k] = p.filteredIcons[first + k]

\* C28: in every state of the picker the page is at least 1 and at most
\* max(1, ceil(filteredIcons.length / itemsPerPage)) and the grid shows the
\* slice of filteredIcons of that page; the timer of a filter change sets
\* filteredIcons to the records that match the controls, and the page to 1.
C28_PageWithinRange ==
  [][/\ PageInRange(picker)
     /\ PageInRange(picker')
     /\ FilterTimer =>
          /\ picker'.currentPage = 1
          /\ \A i \in 1..picker.n :
               Matches(i, toLowerCase(picker.search), picker.category,
                       picker.variant)
                 <=> \E k \in 1..Len(picker'.filteredIcons) :
                       picker'.filteredIcons[k] = i]_vars

\* A filter is set, more than one page matches, and the second page is shown.
C28_Witness ==
  /\ picker.open
  /\ ~picker.loading
  /\ picker.category # <<>>
  /\ picker.currentPage = 2
  /\ Len(picker.filteredIcons) > itemsPerPage
  /\ picker.grid # <<>>
  /\ picker.grid[1] = picker.filteredIcons[itemsPerPage + 1]

=============================================================================
